---- MODULE Spec2Model ----
(***************************************************************************)
(* A model of CV-Ranker (src/app.py): the text helpers (guess_name,        *)
(* find_emails, find_phones, score_text), the ranking pipeline             *)
(* analyze_all_resumes and the four request handlers that trigger it.      *)
(*                                                                         *)
(* A text is a sequence of one-character strings.  A stored file is a      *)
(* record [content, mtime]; a content is what the extraction library makes *)
(* of the file's bytes: [ok |-> TRUE, body |-> text] when it parses and    *)
(* [ok |-> FALSE, body |-> message] when the library raises.               *)
(***************************************************************************)
EXTENDS Integers, Sequences, FiniteSets, TLC

VARIABLES
    uploads,      \* the upload folder: filename -> [content, mtime]
    uploadsDir,   \* TRUE while the upload folder exists on disk
    results,      \* the results folder: filename -> artifact
    clock,        \* time.time() in whole seconds
    response,     \* the last handler's response: [op, status]
    lastRun,      \* the last call of analyze_all_resumes: [done, dir, before, raised, rows]
    text,         \* the argument of the text helpers (text-level specification)
    found         \* [phones, score] of the last helper call on text

vars == <<uploads, uploadsDir, results, clock, response, lastRun, text, found>>

---------------------------------------------------------------------------
(* Bounds of the model *)

MaxFiles == 2

MaxClock == 1

MaxTextLen == 10

---------------------------------------------------------------------------
(* Characters *)

Upper == {"A","B","C","D","E","F","G","H","I","J","K","L","M",
          "N","O","P","Q","R","S","T","U","V","W","X","Y","Z"}

Lower == {"a","b","c","d","e","f","g","h","i","j","k","l","m",
          "n","o","p","q","r","s","t","u","v","w","x","y","z"}

Digit == {"0","1","2","3","4","5","6","7","8","9"}

Whitespace == {" ", "\t", "\n", "\r", "\f"}

LineBreaks == {"\n", "\r", "\f"}

\* The characters the model uses, in code point order.
Ascii == <<"\t", "\n", "\f", "\r", " ", "%", "+", "-", ".",
           "0","1","2","3","4","5","6","7","8","9", ":", "@",
           "A","B","C","D","E","F","G","H","I","J","K","L","M",
           "N","O","P","Q","R","S","T","U","V","W","X","Y","Z",
           "[", "]", "_",
           "a","b","c","d","e","f","g","h","i","j","k","l","m",
           "n","o","p","q","r","s","t","u","v","w","x","y","z">>

\* ord(c): the position of c in that order
Ord == [c \in {Ascii[i] : i \in 1..Len(Ascii)} |->
           CHOOSE i \in 1..Len(Ascii) : Ascii[i] = c] @@ <<>>

LowerOf == [c \in Upper |->
    CASE c = "A" -> "a" [] c = "B" -> "b" [] c = "C" -> "c" [] c = "D" -> "d"
      [] c = "E" -> "e" [] c = "F" -> "f" [] c = "G" -> "g" [] c = "H" -> "h"
      [] c = "I" -> "i" [] c = "J" -> "j" [] c = "K" -> "k" [] c = "L" -> "l"
      [] c = "M" -> "m" [] c = "N" -> "n" [] c = "O" -> "o" [] c = "P" -> "p"
      [] c = "Q" -> "q" [] c = "R" -> "r" [] c = "S" -> "s" [] c = "T" -> "t"
      [] c = "U" -> "u" [] c = "V" -> "v" [] c = "W" -> "w" [] c = "X" -> "x"
      [] c = "Y" -> "y" [] c = "Z" -> "z"]

\* The sequence f as an explicit tuple, each element computed once
ToSeq(f) == f \o <<>>

\* str.lower()
lower(s) == ToSeq([i \in 1..Len(s) |-> IF s[i] \in Upper THEN LowerOf[s[i]] ELSE s[i]])

\* s[a:b] with 1-based inclusive bounds
Slice(s, a, b) == IF a > b THEN <<>> ELSE SubSeq(s, a, b)

\* s.startswith(p) at offset i (1-based)
HasAt(s, p, i) ==
    /\ i + Len(p) - 1 <= Len(s)
    /\ \A j \in 1..Len(p) : s[i + j - 1] = p[j]

\* str.endswith
endswith(s, p) == Len(p) <= Len(s) /\ HasAt(s, p, Len(s) - Len(p) + 1)

\* str.strip()
strip(s) ==
    LET keep == {i \in 1..Len(s) : s[i] \notin Whitespace}
    IN  IF keep = {} THEN <<>>
        ELSE Slice(s, CHOOSE i \in keep : \A j \in keep : i <= j,
                      CHOOSE i \in keep : \A j \in keep : j <= i)

RECURSIVE splitlines(_)
\* str.splitlines(): "\r\n" is one line break; no empty last line
splitlines(s) ==
    LET brk == {i \in 1..Len(s) : s[i] \in LineBreaks}
    IN  IF s = <<>> THEN <<>>
        ELSE IF brk = {} THEN <<s>>
        ELSE LET i == CHOOSE k \in brk : \A j \in brk : k <= j
                 n == IF s[i] = "\r" /\ i < Len(s) /\ s[i + 1] = "\n"
                      THEN i + 2 ELSE i + 1
             IN  <<Slice(s, 1, i - 1)>> \o splitlines(Slice(s, n, Len(s)))

RECURSIVE Join(_, _)
\* sep.join(parts)
Join(parts, sep) ==
    IF parts = <<>> THEN <<>>
    ELSE IF Len(parts) = 1 THEN parts[1]
    ELSE parts[1] \o sep \o Join(Tail(parts), sep)

RECURSIVE Dedup(_, _)
\* list(dict.fromkeys(xs)): first occurrences, in order
Dedup(xs, seen) ==
    IF xs = <<>> THEN <<>>
    ELSE IF Head(xs) \in seen THEN Dedup(Tail(xs), seen)
    ELSE <<Head(xs)>> \o Dedup(Tail(xs), seen \cup {Head(xs)})

RECURSIVE RunEnd(_, _, _)
\* The end of the longest run of characters of class cls starting at i
\* (i - 1 when s[i] is not in cls).
RunEnd(s, i, cls) ==
    IF i > Len(s) \/ s[i] \notin cls THEN i - 1 ELSE RunEnd(s, i + 1, cls)

Max(S) == CHOOSE x \in S : \A y \in S : y <= x

---------------------------------------------------------------------------
(* Helpers of src/app.py *)

ALLOWED_EXTENSIONS == {<<"p","d","f">>, <<"d","o","c","x">>}

\* EMAIL_RE = [A-Za-z0-9._%+-]+@[A-Za-z0-9.-]+\.[A-Za-z]{2,}
EmailLocal == Upper \cup Lower \cup Digit \cup {".", "_", "%", "+", "-"}

EmailDomain == Upper \cup Lower \cup Digit \cup {".", "-"}

EmailTld == Upper \cup Lower

EmailTldMin == 2

\* The end of EMAIL_RE's match starting at i, 0 when it does not match there.
\* The local part is the whole run before "@"; the greedy domain backtracks to
\* the last "." of its run that at least EmailTldMin letters follow.
EmailMatchEnd(s, i) ==
    LET l == RunEnd(s, i, EmailLocal)
        d == RunEnd(s, l + 2, EmailDomain)
        dots == {p \in (l + 3)..d :
                    /\ s[p] = "."
                    /\ RunEnd(s, p + 1, EmailTld) >= p + EmailTldMin}
    IN  IF l >= i /\ l + 1 <= Len(s) /\ s[l + 1] = "@" /\ dots # {}
        THEN RunEnd(s, Max(dots) + 1, EmailTld)
        ELSE 0

\* PHONE_RE = \+?\d[\d\s-]{7,}\d
PhoneMiddle == Digit \cup Whitespace \cup {"-"}

PhoneMinMiddle == 7

\* The end of PHONE_RE's match starting at i, 0 when it does not match there.
\* The greedy middle backtracks to the last digit of its run.
PhoneMatchEndWith(s, i, minMiddle) ==
    LET j == IF i <= Len(s) /\ s[i] = "+" THEN i + 1 ELSE i
        r == RunEnd(s, j + 1, PhoneMiddle)
        ends == {e \in (j + 1 + minMiddle)..r : s[e] \in Digit}
    IN  IF j <= Len(s) /\ s[j] \in Digit /\ ends # {} THEN Max(ends) ELSE 0

PhoneMatchEndOffByOne(s, i) == PhoneMatchEndWith(s, i, PhoneMinMiddle + 1)

PhoneMatchEnd(s, i) == PhoneMatchEndWith(s, i, PhoneMinMiddle)

RECURSIVE FindSpans(_, _, _)
\* Pattern.findall's scan: the spans <<first, last>> of the non-overlapping
\* matches, leftmost first; kind selects the pattern.
FindSpans(s, i, kind) ==
    IF i > Len(s) THEN <<>>
    ELSE LET e == IF kind = "email" THEN EmailMatchEnd(s, i)
                  ELSE PhoneMatchEnd(s, i)
         IN  IF e = 0 THEN FindSpans(s, i + 1, kind)
             ELSE <<<<i, e>>>> \o FindSpans(s, e + 1, kind)

SpanTexts(s, spans) ==
    ToSeq([n \in 1..Len(spans) |-> Slice(s, spans[n][1], spans[n][2])])

find_emails(s) == SpanTexts(s, FindSpans(s, 1, "email"))

find_phones(s) == SpanTexts(s, FindSpans(s, 1, "phone"))

allowed_file(filename) ==
    LET dots == {i \in 1..Len(filename) : filename[i] = "."}
    IN  /\ dots # {}
        /\ lower(Slice(filename, Max(dots) + 1, Len(filename))) \in ALLOWED_EXTENSIONS

\* re.match(r"^[A-Z][a-z]+ [A-Z][a-z]+", line)
NameMatch(line) ==
    LET e == RunEnd(line, 2, Lower)
    IN  /\ Len(line) >= 1 /\ line[1] \in Upper
        /\ e >= 2
        /\ e + 2 <= Len(line) /\ line[e + 1] = " " /\ line[e + 2] \in Upper
        /\ RunEnd(line, e + 3, Lower) >= e + 3

NameMaxLen == 80

Unknown == <<"U","n","k","n","o","w","n">>

\* The first element of seq that satisfies the predicate given as the set of its
\* indices, or dflt.
FirstAt(seq, idx, dflt) ==
    IF idx = {} THEN dflt ELSE seq[CHOOSE i \in idx : \A j \in idx : i <= j]

guess_name(s) ==
    LET split == splitlines(s)
        lines == ToSeq([i \in 1..Len(split) |-> strip(split[i])])
        named == {i \in 1..Len(lines) : NameMatch(lines[i])}
        first == FirstAt(lines, {i \in 1..Len(lines) : lines[i] # <<>>}, <<>>)
    IN  IF named # {} THEN FirstAt(lines, named, <<>>)
        ELSE IF first # <<>> THEN Slice(first, 1, IF Len(first) < NameMaxLen
                                                   THEN Len(first) ELSE NameMaxLen)
        ELSE Unknown

keywords == <<
    [k |-> <<"p","y","t","h","o","n">>, w |-> 3],
    [k |-> <<"m","a","c","h","i","n","e"," ","l","e","a","r","n","i","n","g">>, w |-> 4],
    [k |-> <<"d","e","e","p"," ","l","e","a","r","n","i","n","g">>, w |-> 4],
    [k |-> <<"a","i">>, w |-> 3],
    [k |-> <<"d","a","t","a"," ","s","c","i","e","n","c","e">>, w |-> 3],
    [k |-> <<"o","p","e","n","c","v">>, w |-> 2],
    [k |-> <<"d","j","a","n","g","o">>, w |-> 2],
    [k |-> <<"f","l","a","s","k">>, w |-> 2],
    [k |-> <<"p","y","t","o","r","c","h">>, w |-> 3],
    [k |-> <<"t","e","n","s","o","r","f","l","o","w">>, w |-> 3],
    [k |-> <<"s","q","l">>, w |-> 2],
    [k |-> <<"a","w","s">>, w |-> 2],
    [k |-> <<"d","o","c","k","e","r">>, w |-> 2],
    [k |-> <<"n","l","p">>, w |-> 3],
    [k |-> <<"c","o","m","p","u","t","e","r"," ","v","i","s","i","o","n">>, w |-> 3],
    [k |-> <<"o","b","j","e","c","t"," ","d","e","t","e","c","t","i","o","n">>, w |-> 3]
>>

RECURSIVE count(_, _, _)
\* str.count(k): non-overlapping occurrences of k in s from offset i
count(s, k, i) ==
    IF i + Len(k) - 1 > Len(s) THEN 0
    ELSE IF s[i] = k[1] /\ HasAt(s, k, i) THEN 1 + count(s, k, i + Len(k))
    ELSE count(s, k, i + 1)

RECURSIVE SumWeights(_, _)
SumWeights(txt, n) ==
    IF n = 0 THEN 0
    ELSE count(txt, keywords[n].k, 1) * keywords[n].w + SumWeights(txt, n - 1)

EmailBonus == 2

PhoneBonus == 1

score_text(s) ==
    LET txt == lower(s)
    IN  SumWeights(txt, Len(keywords))
            + (IF find_emails(s) # <<>> THEN EmailBonus ELSE 0)
            + (IF find_phones(s) # <<>> THEN PhoneBonus ELSE 0)

---------------------------------------------------------------------------
(* Paths, names and timestamps *)

UPLOAD_FOLDER == <<"u","p","l","o","a","d","s">>

OutName == "ranked_resumes.xlsx"

\* os.path.join(UPLOAD_FOLDER, fname)
PathOf(fname) == UPLOAD_FOLDER \o <<"/">> \o fname

\* os.path.splitext(fname): the last dot splits, unless only dots precede it
splitext(fname) ==
    LET dots == {i \in 1..Len(fname) : fname[i] = "."}
        d == Max(dots)
    IN  IF dots # {} /\ \E i \in 1..(d - 1) : fname[i] # "."
        THEN <<Slice(fname, 1, d - 1), Slice(fname, d, Len(fname))>>
        ELSE <<fname, <<>>>>

DigitChars == <<"0","1","2","3","4","5","6","7","8","9">>

RECURSIVE IntToStr(_)
\* str(n) for n >= 0
IntToStr(n) ==
    IF n < 10 THEN <<DigitChars[n + 1]>>
    ELSE IntToStr(n \div 10) \o <<DigitChars[(n % 10) + 1]>>

RECURSIVE Pad(_, _)
\* zero-padded to width w
Pad(n, w) == IF Len(IntToStr(n)) >= w THEN IntToStr(n)
             ELSE <<"0">> \o Pad(n, w - 1)

\* datetime.fromtimestamp(t).strftime("%Y-%m-%d %H:%M:%S"), the local time zone
\* taken to be UTC; the date is the civil date of day t \div 86400.
FormatTimestamp(t) ==
    LET days == t \div 86400
        secs == t % 86400
        z    == days + 719468
        era  == z \div 146097
        doe  == z - era * 146097
        yoe  == (doe - doe \div 1460 + doe \div 36524 - doe \div 146096) \div 365
        doy  == doe - (365 * yoe + yoe \div 4 - yoe \div 100)
        mp   == (5 * doy + 2) \div 153
        d    == doy - (153 * mp + 2) \div 5 + 1
        m    == IF mp < 10 THEN mp + 3 ELSE mp - 9
        y    == yoe + era * 400 + (IF m <= 2 THEN 1 ELSE 0)
    IN  Pad(y, 4) \o <<"-">> \o Pad(m, 2) \o <<"-">> \o Pad(d, 2) \o <<" ">>
        \o Pad(secs \div 3600, 2) \o <<":">> \o Pad((secs \div 60) % 60, 2)
        \o <<":">> \o Pad(secs % 60, 2)

\* a < b in the order sorted() gives strings: code point by code point
LexLess(a, b) ==
    \E i \in 1..(Len(b)) :
        /\ \A j \in 1..(i - 1) : j <= Len(a) /\ a[j] = b[j]
        /\ \/ i = Len(a) + 1
           \/ i <= Len(a) /\ Ord[a[i]] < Ord[b[i]]

RECURSIVE sorted(_)
\* sorted(names): ascending
sorted(S) ==
    IF S = {} THEN <<>>
    ELSE LET m == CHOOSE x \in S : \A y \in S \ {x} : LexLess(x, y)
         IN  <<m>> \o sorted(S \ {m})

\* werkzeug's secure_filename on ASCII input: whitespace runs become "_",
\* characters outside [A-Za-z0-9_.-] are dropped, "." and "_" are stripped
\* from both ends.
SafeChars == Upper \cup Lower \cup Digit \cup {"_", ".", "-"}

RECURSIVE WsSplit(_)
\* str.split(): the words between runs of whitespace
WsSplit(s) ==
    LET t == strip(s)
        e == RunEnd(t, 1, {t[i] : i \in 1..Len(t)} \ Whitespace)
    IN  IF t = <<>> THEN <<>>
        ELSE <<Slice(t, 1, e)>> \o WsSplit(Slice(t, e + 1, Len(t)))

secure_filename(fname) ==
    LET seps == ToSeq([i \in 1..Len(fname) |-> IF fname[i] = "/" THEN " " ELSE fname[i]])
        joined == Join(WsSplit(seps), <<"_">>)
        kept == SelectSeq(joined, LAMBDA c : c \in SafeChars)
        core == {i \in 1..Len(kept) : kept[i] \notin {".", "_"}}
    IN  IF core = {} THEN <<>>
        ELSE Slice(kept, CHOOSE i \in core : \A j \in core : i <= j, Max(core))

---------------------------------------------------------------------------
(* Text extraction *)

\* What a call returns: a value, or an exception that propagates.
Returns(v) == [raised |-> FALSE, value |-> v]

Raises == [raised |-> TRUE, value |-> <<>>]

RECURSIVE SplitOn(_, _)
\* s.split(c)
SplitOn(s, c) ==
    LET at == {i \in 1..Len(s) : s[i] = c}
        i == CHOOSE k \in at : \A j \in at : k <= j
    IN  IF at = {} THEN <<s>>
        ELSE <<Slice(s, 1, i - 1)>> \o SplitOn(Slice(s, i + 1, Len(s)), c)

\* pdfminer's extract_text: the text, or an exception carrying a message
pdf_extract_text(content) ==
    IF content.ok THEN Returns(content.body) ELSE Raises

\* docx.Document(path).paragraphs: the paragraphs' texts, or an exception
docx_paragraphs(content) ==
    IF content.ok THEN Returns(SplitOn(content.body, "\n")) ELSE Raises

PdfError(msg) ==
    <<"[","P","D","F"," ","r","e","a","d"," ","e","r","r","o","r",":"," ">>
        \o msg \o <<"]">>

DocxError(msg) ==
    <<"[","D","O","C","X"," ","r","e","a","d"," ","e","r","r","o","r",":"," ">>
        \o msg \o <<"]">>

\* extract_text_from_file without its try/except: the library's exception
\* propagates to the caller.
extract_text_uncaught(path, content) ==
    IF endswith(lower(path), <<".","p","d","f">>)
    THEN pdf_extract_text(content)
    ELSE IF endswith(lower(path), <<".","d","o","c","x">>)
    THEN IF docx_paragraphs(content).raised THEN Raises
         ELSE Returns(Join(docx_paragraphs(content).value, <<"\n">>))
    ELSE Returns(<<>>)

extract_text_from_file(path, content) ==
    IF endswith(lower(path), <<".","p","d","f">>)
    THEN IF pdf_extract_text(content).raised
         THEN Returns(PdfError(content.body))
         ELSE Returns(pdf_extract_text(content).value)
    ELSE IF endswith(lower(path), <<".","d","o","c","x">>)
    THEN IF docx_paragraphs(content).raised
         THEN Returns(DocxError(content.body))
         ELSE Returns(Join(docx_paragraphs(content).value, <<"\n">>))
    ELSE Returns(<<>>)

---------------------------------------------------------------------------
(* The ranking pipeline *)

\* a or b on strings: b when a is empty
OrElse(a, b) == IF a # <<>> THEN a ELSE b

\* The uploaded documents of the model: a resume with a name line, a keyword,
\* an email address and a phone number; a blank document; a corrupt one whose
\* extraction raises with the message EOF.
Corpus == {
    [ok |-> TRUE,  body |-> <<"A","n","n"," ","L","e","e","\n","a","i"," ","a","@","b",".","i","o",
                              " ","1","2","3","4","5","6","7","8","9">>],
    [ok |-> TRUE,  body |-> <<" ","\n">>],
    [ok |-> FALSE, body |-> <<"E","O","F">>] }

\* Lines 97-100, 105-106: what the helpers make of one text
TextFields(txt) ==
    [guess  |-> guess_name(txt),
     emails |-> Join(Dedup(find_emails(txt), {}), <<","," ">>),
     phones |-> Join(Dedup(find_phones(txt), {}), <<","," ">>),
     score  |-> score_text(txt)]

\* The texts a stored document can extract to: a document of the corpus under
\* a .pdf name, a .docx name or any other name
CorpusTexts ==
    {extract_text_from_file(PathOf(n), c).value :
        n \in {<<".","p","d","f">>, <<".","d","o","c","x">>, <<>>}, c \in Corpus}

\* TextFields, tabulated over CorpusTexts (each text is analysed once)
CorpusFields == [t \in CorpusTexts |-> TextFields(t)] @@ <<>>

FieldsOf(txt) == CorpusFields[txt]

\* Lines 97-109: the row of the file fname, from what the helpers make of its
\* text and from its modification time
Row(fname, fields, mtime) ==
    [filename    |-> fname,
     name        |-> OrElse(fields.guess, splitext(fname)[1]),
     emails      |-> fields.emails,
     phones      |-> fields.phones,
     score       |-> fields.score,
     uploaded_at |-> FormatTimestamp(mtime)]

\* Lines 95-109: the row of one stored file (value), or the exception of its
\* extraction.
RowOf(fname, file) ==
    LET ex == extract_text_from_file(PathOf(fname), file.content)
    IN  IF ex.raised THEN Raises
        ELSE Returns(Row(fname, FieldsOf(ex.value), file.mtime))

RowKeys == <<"filename", "name", "emails", "phones", "score", "uploaded_at">>

EmptyColumns == <<"Rank", "filename", "name", "emails", "phones", "score", "uploaded_at">>

\* DataFrame.to_excel(index=False): the header row and one row of cells per
\* record, in column order.
Cells(r) == <<r.Rank, r.filename, r.name, r.emails, r.phones, r.score, r.uploaded_at>>

to_excel(columns, records) ==
    [header |-> columns, rows |-> [i \in 1..Len(records) |-> Cells(records[i])]]

\* df.sort_values(by="score", ascending=False) with the default kind
\* ("quicksort", which is not a stable sort): every order of the rows by
\* non-increasing score is an outcome, as a sequence of indices into rows.
SortedAscending(rows) ==
    {p \in Permutations(1..Len(rows)) :
        \A i \in 1..(Len(rows) - 1) : rows[p[i]].score <= rows[p[i + 1]].score}

sort_values(rows) ==
    {p \in Permutations(1..Len(rows)) :
        \A i \in 1..(Len(rows) - 1) : rows[p[i]].score >= rows[p[i + 1]].score}

\* Lines 115-117: reset_index, index + 1, insert(0, "Rank", index)
Ranked(rows, p) ==
    [i \in 1..Len(rows) |->
        [Rank |-> i, filename |-> rows[p[i]].filename, name |-> rows[p[i]].name,
         emails |-> rows[p[i]].emails, phones |-> rows[p[i]].phones,
         score |-> rows[p[i]].score, uploaded_at |-> rows[p[i]].uploaded_at]]

\* f.save / to_excel: the folder with name written (created or overwritten)
Written(dir, name, data) ==
    [n \in DOMAIN dir \cup {name} |-> IF n = name THEN data ELSE dir[n]]

\* Lines 111-118: to_excel(out_path) overwrites the one artifact.  The variant
\* keeps the previous export and writes the new one beside it.
SaveArtifactVersioned(res, art) ==
    IF OutName \in DOMAIN res THEN Written(res, "ranked_resumes_1.xlsx", art)
    ELSE Written(res, OutName, art)

SaveArtifact(res, art) == Written(res, OutName, art)

\* The outcomes of one call of analyze_all_resumes on the folders upl (present
\* when dirOK) and res: the folders after it and what it returns.
Outcome(raised, upl, res, rows) ==
    [raised |-> raised, uploads |-> upl, results |-> res, rows |-> rows]

\* Lines 92-94: the stored names the loop visits, in its order
Listed(upl) == SelectSeq(sorted(DOMAIN upl), allowed_file)

\* Lines 92-109: what the loop makes of each listed file
MadeRows(upl, names) == ToSeq([i \in 1..Len(names) |-> RowOf(names[i], upl[names[i]])])

\* The empty branch returning before it writes the headers-only artifact
ExportEmptyUnwritten(upl, res) == {Outcome(FALSE, upl, res, <<>>)}

\* Lines 112-114: no rows
ExportEmpty(upl, res) ==
    {Outcome(FALSE, upl, SaveArtifact(res, to_excel(EmptyColumns, <<>>)), <<>>)}

\* Lines 110-119: the export and the returned list, from the loop's rows
Export(upl, res, rows) ==
    IF rows = <<>> THEN ExportEmpty(upl, res)
    ELSE {Outcome(FALSE, upl,
                  SaveArtifact(res, to_excel(<<"Rank">> \o RowKeys, Ranked(rows, p))),
                  Ranked(rows, p)) : p \in sort_values(rows)}

Finish(upl, res, made) ==
    IF \E i \in 1..Len(made) : made[i].raised
    THEN {Outcome(TRUE, upl, res, <<>>)}                      \* the exception propagates
    ELSE Export(upl, res, ToSeq([i \in 1..Len(made) |-> made[i].value]))

analyze_all_resumes(upl, dirOK, res) ==
    IF ~dirOK THEN {Outcome(TRUE, upl, res, <<>>)}            \* os.listdir raises
    ELSE Finish(upl, res, MadeRows(upl, Listed(upl)))

---------------------------------------------------------------------------
(* Requests *)

\* The filenames clients send: a.pdf, b.docx, .pdf, n.txt and the empty name.
UploadNames == { <<"a",".","p","d","f">>, <<"b",".","d","o","c","x">>,
                 <<".","p","d","f">>, <<"n",".","t","x","t">>, <<>> }

NoRun == [done |-> FALSE, dir |-> TRUE, before |-> <<>>, raised |-> FALSE,
          rows |-> <<>>]

Init ==
    /\ uploads = <<>>            \* os.makedirs(UPLOAD_FOLDER, exist_ok=True)
    /\ uploadsDir = TRUE
    /\ results = <<>>            \* os.makedirs(RESULTS_FOLDER, exist_ok=True)
    /\ clock = 0
    /\ response = [op |-> "none", status |-> 0]
    /\ lastRun = NoRun
    /\ text = <<>>
    /\ found = [phones |-> <<>>, score |-> 0]

\* A handler answers without touching the folders or running the pipeline.
Answer(op, status) ==
    /\ response' = [op |-> op, status |-> status]
    /\ UNCHANGED <<uploads, uploadsDir, results, clock, lastRun, text, found>>

\* A handler calls analyze_all_resumes on the folders upl and res and answers
\* okStatus, or 500 when the call raises.
Run(op, okStatus, upl, res) ==
    \E o \in analyze_all_resumes(upl, uploadsDir, res) :
        /\ uploads' = o.uploads
        /\ results' = o.results
        /\ lastRun' = [done |-> TRUE, dir |-> uploadsDir, before |-> upl,
                       raised |-> o.raised, rows |-> o.rows]
        /\ response' = [op |-> op, status |-> IF o.raised THEN 500 ELSE okStatus]
        /\ UNCHANGED <<uploadsDir, clock, text, found>>

\* Lines 264-269: the name the upload is stored under
StoredName(fname) ==
    LET filename == secure_filename(fname)
        exists == uploadsDir /\ (filename = <<>> \/ filename \in DOMAIN uploads)
    IN  IF exists
        THEN splitext(filename)[1] \o <<"_">> \o IntToStr(clock) \o splitext(filename)[2]
        ELSE filename

\* POST /upload
upload(hasFile, fname, content) ==
    LET saved == Written(uploads, StoredName(fname),
                         [content |-> content, mtime |-> clock])
    IN  IF ~hasFile THEN Answer("upload", 400)
        ELSE IF fname = <<>> \/ ~allowed_file(fname) THEN Answer("upload", 400)
        ELSE IF ~uploadsDir THEN Answer("upload", 500)        \* f.save raises
        ELSE /\ Cardinality(DOMAIN saved) <= MaxFiles
             /\ Run("upload", 204, saved, results)

\* GET /data
data == Run("data", 200, uploads, results)

\* GET /download
download == Run("download", 200, uploads, results)

\* POST /delete_all without its last line: the folders are emptied and the
\* pipeline is not run again.
delete_all_no_rerun ==
    /\ uploads' = <<>>
    /\ results' = <<>>
    /\ response' = [op |-> "delete_all", status |-> 200]
    /\ UNCHANGED <<uploadsDir, clock, lastRun, text, found>>

\* POST /delete_all
delete_all ==
    IF ~uploadsDir THEN Answer("delete_all", 500)             \* os.listdir raises
    ELSE Run("delete_all", 200, <<>>, <<>>)

\* a second passes
Tick ==
    /\ clock < MaxClock
    /\ clock' = clock + 1
    /\ UNCHANGED <<uploads, uploadsDir, results, response, lastRun, text, found>>

Next ==
    \/ \E fname \in UploadNames, content \in Corpus : upload(TRUE, fname, content)
    \/ \E content \in Corpus : upload(FALSE, <<>>, content)
    \/ data
    \/ download
    \/ delete_all
    \/ Tick

Spec == Init /\ [][Next]_vars

\* The upload folder is made when the module is imported (lines 17-18) and
\* never again: once it is removed from outside, it stays missing.
RemoveUploadFolder ==
    /\ uploadsDir
    /\ uploadsDir' = FALSE
    /\ uploads' = <<>>
    /\ UNCHANGED <<results, clock, response, lastRun, text, found>>

NextEnv == Next \/ RemoveUploadFolder

SpecEnv == Init /\ [][NextEnv]_vars

\* The text helpers on every text over TextAlphabet up to MaxTextLen characters
TextAlphabet == {"+", "7", "-"}

scan(c) ==
    /\ Len(text) < MaxTextLen
    /\ LET typed == Append(text, c)
       IN  /\ text' = typed
           /\ found' = [phones |-> find_phones(typed), score |-> score_text(typed)]
    /\ UNCHANGED <<uploads, uploadsDir, results, clock, response, lastRun>>

NextText == \E c \in TextAlphabet : scan(c)

SpecText == Init /\ [][NextText]_vars

---------------------------------------------------------------------------
(* Properties *)

\* The name has the extension pdf or docx, in any case
HasAllowedExt(n) ==
    \/ endswith(lower(n), <<".","p","d","f">>)
    \/ endswith(lower(n), <<".","d","o","c","x">>)

Valid == {n \in DOMAIN uploads : HasAllowedExt(n)}

RanOK == lastRun.done /\ ~lastRun.raised

HeaderRow == <<"Rank", "filename", "name", "emails", "phones", "score", "uploaded_at">>

\* C1: a run returns one record per stored pdf/docx file, with Rank i at
\* position i for i = 1..N and scores that do not increase with the rank.
C1_RanksArePermutation ==
    RanOK =>
        LET rows == lastRun.rows
        IN  /\ Len(rows) = Cardinality(Valid)
            /\ {rows[i].filename : i \in 1..Len(rows)} = Valid
            /\ \A i \in 1..Len(rows) : rows[i].Rank = i
            /\ \A i \in 1..(Len(rows) - 1) : rows[i].score >= rows[i + 1].score

C1_Witness ==
    /\ RanOK
    /\ Len(lastRun.rows) >= 2
    /\ lastRun.rows[1].score > lastRun.rows[2].score

\* C2: of two records with equal scores, the one with the lexicographically
\* smaller filename has the smaller rank.
C2_TiesKeepFilenameOrder ==
    RanOK =>
        \A i, j \in 1..Len(lastRun.rows) :
            (i < j /\ lastRun.rows[i].score = lastRun.rows[j].score)
                => LexLess(lastRun.rows[i].filename, lastRun.rows[j].filename)

\* C3: once a run has completed, the artifact holds the header and, row by
\* row, the cells of the list the last run returned, and that list is one the
\* pipeline computes from the files now in the upload folder.
C3_ArtifactMatchesFolder ==
    lastRun.done =>
        /\ ~lastRun.raised
        /\ OutName \in DOMAIN results
        /\ results[OutName].header = HeaderRow
        /\ Len(results[OutName].rows) = Len(lastRun.rows)
        /\ \A i \in 1..Len(lastRun.rows) :
               LET r == lastRun.rows[i]
               IN  results[OutName].rows[i] =
                       <<r.Rank, r.filename, r.name, r.emails, r.phones, r.score,
                         r.uploaded_at>>
        /\ \E o \in analyze_all_resumes(uploads, uploadsDir, results) :
               ~o.raised /\ o.rows = lastRun.rows /\ o.results = results

C3_Witness ==
    /\ lastRun.done
    /\ response.op = "download"
    /\ clock >= 1
    /\ Len(lastRun.rows) >= 2

\* C4: a run over a folder with no pdf/docx file returns the empty list and
\* leaves an artifact of the header row and no data row.
C4_EmptyFolderExport ==
    (RanOK /\ Valid = {}) =>
        /\ lastRun.rows = <<>>
        /\ OutName \in DOMAIN results
        /\ results[OutName] = [header |-> HeaderRow, rows |-> <<>>]

C4_Witness ==
    /\ RanOK
    /\ Valid = {}
    /\ DOMAIN uploads # {}

\* C5: a run while the upload folder is missing does not raise: it returns
\* the empty list and writes the headers-only artifact.
C5_MissingFolderIsEmptyBranch ==
    (lastRun.done /\ ~lastRun.dir) =>
        /\ ~lastRun.raised
        /\ lastRun.rows = <<>>
        /\ OutName \in DOMAIN results
        /\ results[OutName] = [header |-> HeaderRow, rows |-> <<>>]

\* The text a stored file yields: its body, or the bracketed error string
ExpectedText(n, file) ==
    IF file.content.ok THEN file.content.body
    ELSE IF endswith(lower(n), <<".","p","d","f">>)
    THEN <<"[","P","D","F"," ","r","e","a","d"," ","e","r","r","o","r",":"," ">>
             \o file.content.body \o <<"]">>
    ELSE <<"[","D","O","C","X"," ","r","e","a","d"," ","e","r","r","o","r",":"," ">>
             \o file.content.body \o <<"]">>

\* What a record made from the text t alone holds, for every text a stored
\* file can yield
ExpectedFields ==
    [t \in {ExpectedText(n, [content |-> c]) :
                n \in {<<".","p","d","f">>, <<".","d","o","c","x">>}, c \in Corpus} |->
        [name   |-> guess_name(t),
         score  |-> score_text(t),
         emails |-> Join(Dedup(find_emails(t), {}), <<","," ">>),
         phones |-> Join(Dedup(find_phones(t), {}), <<","," ">>)]] @@ <<>>

\* C6: no run raises, and every stored pdf/docx file has exactly one record,
\* made from that file alone: from its text or, when its extraction raises,
\* from the bracketed error string, which is scored like any text.
C6_FailedExtractionKeepsRows ==
    lastRun.done =>
        /\ ~lastRun.raised
        /\ \A n \in Valid :
               LET at == {i \in 1..Len(lastRun.rows) : lastRun.rows[i].filename = n}
                   t  == ExpectedText(n, uploads[n])
               IN  /\ Cardinality(at) = 1
                   /\ \A i \in at :
                          /\ lastRun.rows[i].name = ExpectedFields[t].name
                          /\ lastRun.rows[i].score = ExpectedFields[t].score
                          /\ lastRun.rows[i].emails = ExpectedFields[t].emails
                          /\ lastRun.rows[i].phones = ExpectedFields[t].phones
                          /\ ~uploads[n].content.ok => lastRun.rows[i].name = t

C6_Witness ==
    /\ RanOK
    /\ Len(lastRun.rows) >= 2
    /\ \E n, m \in Valid : ~uploads[n].content.ok /\ uploads[m].content.ok
                            /\ uploads[m].content.body # <<" ","\n">>

\* The filename without its extension
Stem(n) == Slice(n, 1, Max({i \in 1..Len(n) : n[i] = "."}) - 1)

\* C7: a record whose text has no non-blank line is named by its filename
\* stem.
C7_BlankTextNamedByStem ==
    RanOK =>
        \A i \in 1..Len(lastRun.rows) :
            LET n == lastRun.rows[i].filename
            IN  (n \in DOMAIN uploads /\ uploads[n].content.ok
                    /\ strip(uploads[n].content.body) = <<>>)
                    => lastRun.rows[i].name = Stem(n)

\* C8: a run leaves the upload folder as it was when the run began (the same
\* filenames with the same contents), and after any run the results folder
\* holds the one artifact ranked_resumes.xlsx.
C8_RunOnlyWritesArtifact ==
    lastRun.done =>
        /\ DOMAIN uploads = DOMAIN lastRun.before
        /\ \A n \in DOMAIN uploads : uploads[n] = lastRun.before[n]
        /\ DOMAIN results = {OutName}

C8_Witness ==
    /\ RanOK
    /\ response.op = "data"
    /\ Cardinality(DOMAIN uploads) >= 2
    /\ lastRun.before = uploads
    /\ DOMAIN results = {OutName}

AllDigits(s) == \A i \in 1..Len(s) : s[i] \in Digit

\* A match without its leading "+"
Unsigned(m) == IF m # <<>> /\ m[1] = "+" THEN Tail(m) ELSE m

PhoneShape(m, least) ==
    LET b == Unsigned(m)
    IN  /\ Len(b) >= least
        /\ b[1] \in Digit /\ b[Len(b)] \in Digit
        /\ \A i \in 2..(Len(b) - 1) : b[i] \in Digit \cup {" ", "\t", "\n", "\r", "\f", "-"}

\* C9 as stated: every match is a digit, 8 or more digits, spaces or hyphens
\* and a digit (10 characters or more besides the "+"), and a run of exactly 9
\* digits is not matched and earns no phone bonus.
C9_TenCharacterMinimum ==
    /\ \A k \in 1..Len(found.phones) : PhoneShape(found.phones[k], 10)
    /\ (AllDigits(text) /\ Len(text) = 9) => (found.phones = <<>> /\ found.score = 0)

\* C9 amended: every match is a digit, 7 or more digits, spaces or hyphens and
\* a digit (9 characters or more besides the "+"); a run of exactly 9 digits
\* is matched whole and earns the phone bonus, a run of 8 or fewer is not
\* matched and earns none.
C9_NineCharacterMinimum ==
    /\ \A k \in 1..Len(found.phones) : PhoneShape(found.phones[k], 9)
    /\ (AllDigits(text) /\ Len(text) = 9) => (found.phones = <<text>> /\ found.score = 1)
    /\ (AllDigits(text) /\ Len(text) <= 8) => (found.phones = <<>> /\ found.score = 0)

C9_Witness ==
    /\ AllDigits(text) /\ Len(text) = 9
    /\ found.phones = <<text>>

\* C10: an accepted upload stores its file under a name no stored file has:
\* it adds one file and leaves every file stored before as it was.
C10_Step ==
    \A fname \in UploadNames, content \in Corpus :
        (upload(TRUE, fname, content) /\ response'.status = 204)
            => /\ Cardinality(DOMAIN uploads') = Cardinality(DOMAIN uploads) + 1
               /\ \A n \in DOMAIN uploads : uploads'[n] = uploads[n]

C10_UploadsNeverOverwrite == [][C10_Step]_vars

====
